---- MODULE Spec2Model ----
(***************************************************************************)
(* LiteLLM managed files (litellm/proxy/hooks/managed_files.py): the       *)
(* unified file id codec, the cache-backed stores and the file endpoints   *)
(* of _PROXY_LiteLLMManagedFiles.                                          *)
(*                                                                         *)
(* Strings are TLA+ strings over printable ASCII; bytes are naturals       *)
(* 0..255.  A cache value is None, a file object (a record with an id) or  *)
(* a backend mapping (a Python dict in insertion order: a sequence of      *)
(* <<model_id, file_id>> pairs with distinct model ids).                   *)
(***************************************************************************)
EXTENDS Integers, Sequences, FiniteSets, TLC

(***************************************************************************)
(* Characters and bytes                                                    *)
(***************************************************************************)

\* The printable ASCII characters, code 32 (space) to 126 (~), in code order,
\* without the backquote (code 96), which a TLA+ string cannot hold.
PrintableAscii ==
    " !\"#$%&'()*+,-./0123456789:;<=>?@ABCDEFGHIJKLMNOPQRSTUVWXYZ[\\]^_abcdefghijklmnopqrstuvwxyz{|}~"

CharAt(s, i) == SubSeq(s, i, i)

Chars == { CharAt(PrintableAscii, i) : i \in 1..Len(PrintableAscii) }

\* ord(c) of a character
Ord ==
    [ c \in Chars |->
        LET i == CHOOSE j \in 1..Len(PrintableAscii) : CharAt(PrintableAscii, j) = c
        IN  IF i <= 64 THEN 31 + i ELSE 32 + i ]

\* chr(b) of a byte that is a character of the model
CharOfByte(b) == CHOOSE c \in Chars : Ord[c] = b

\* str.encode(): the UTF-8 bytes of a string (one byte per ASCII character)
StrEncode(s) == [ i \in 1..Len(s) |-> Ord[CharAt(s, i)] ]

\* The UTF-8 decoder, one byte: need is the number of continuation bytes
\* still expected, lo..hi the range the next of them must lie in, bad a
\* malformed sequence (UnicodeDecodeError).
utf8_step(st, b) ==
    IF st.bad THEN st
    ELSE IF st.need > 0 THEN
        IF b >= st.lo /\ b <= st.hi
        THEN [st EXCEPT !.need = st.need - 1, !.lo = 128, !.hi = 191]
        ELSE [st EXCEPT !.bad = TRUE]
    ELSE IF b < 128 THEN st
    ELSE IF b >= 194 /\ b <= 223 THEN [st EXCEPT !.need = 1, !.lo = 128, !.hi = 191]
    ELSE IF b = 224 THEN [st EXCEPT !.need = 2, !.lo = 160, !.hi = 191]
    ELSE IF b = 237 THEN [st EXCEPT !.need = 2, !.lo = 128, !.hi = 159]
    ELSE IF b >= 225 /\ b <= 239 THEN [st EXCEPT !.need = 2, !.lo = 128, !.hi = 191]
    ELSE IF b = 240 THEN [st EXCEPT !.need = 3, !.lo = 144, !.hi = 191]
    ELSE IF b = 244 THEN [st EXCEPT !.need = 3, !.lo = 128, !.hi = 143]
    ELSE IF b >= 241 /\ b <= 243 THEN [st EXCEPT !.need = 3, !.lo = 128, !.hi = 191]
    ELSE [st EXCEPT !.bad = TRUE]

\* The decoder over the bytes lo..hi of bs, in order
RECURSIVE utf8_loop(_, _, _, _)
utf8_loop(bs, lo, hi, st) ==
    IF lo > hi THEN st
    ELSE IF lo = hi THEN utf8_step(st, bs[lo])
    ELSE LET mid   == (lo + hi) \div 2
             first == utf8_loop(bs, lo, mid, st)
         IN  IF first.bad THEN first ELSE utf8_loop(bs, mid + 1, hi, first)

\* bytes.decode() succeeds: bs is well-formed UTF-8
Utf8Valid(bs) ==
    LET st == utf8_loop(bs, 1, Len(bs), [need |-> 0, lo |-> 128, hi |-> 191, bad |-> FALSE])
    IN  ~st.bad /\ st.need = 0

\* The string of the bytes lo..hi of bs, all of them characters of the model
RECURSIVE StrOfBytes(_, _, _)
StrOfBytes(bs, lo, hi) ==
    IF lo > hi THEN ""
    ELSE IF lo = hi THEN CharOfByte(bs[lo])
    ELSE LET mid == (lo + hi) \div 2
         IN  StrOfBytes(bs, lo, mid) \o StrOfBytes(bs, mid + 1, hi)

(***************************************************************************)
(* base64 (the base64 and binascii modules of the standard library)        *)
(***************************************************************************)

\* The URL-safe alphabet of base64.urlsafe_b64encode: value v is character v + 1
UrlSafeAlphabet == "ABCDEFGHIJKLMNOPQRSTUVWXYZabcdefghijklmnopqrstuvwxyz0123456789-_"

B64Char(v) == CharAt(UrlSafeAlphabet, v + 1)

\* base64.urlsafe_b64encode(bs).decode(): 3 bytes give 4 characters, the tail is padded with "="
RECURSIVE urlsafe_b64encode(_, _)
urlsafe_b64encode(bs, i) ==
    LET left == Len(bs) - i + 1
    IN  IF left <= 0 THEN ""
        ELSE IF left = 1 THEN
            B64Char(bs[i] \div 4) \o B64Char((bs[i] % 4) * 16) \o "=="
        ELSE IF left = 2 THEN
            B64Char(bs[i] \div 4) \o B64Char((bs[i] % 4) * 16 + bs[i + 1] \div 16)
              \o B64Char((bs[i + 1] % 16) * 4) \o "="
        ELSE
            B64Char(bs[i] \div 4) \o B64Char((bs[i] % 4) * 16 + bs[i + 1] \div 16)
              \o B64Char((bs[i + 1] % 16) * 4 + bs[i + 2] \div 64) \o B64Char(bs[i + 2] % 64)
              \o urlsafe_b64encode(bs, i + 3)

\* str.rstrip("=")
RECURSIVE RStripPad(_)
RStripPad(s) ==
    IF Len(s) > 0 /\ CharAt(s, Len(s)) = "=" THEN RStripPad(SubSeq(s, 1, Len(s) - 1)) ELSE s

\* The value of a character under base64.urlsafe_b64decode: "-" and "_" are
\* translated to "+" and "/" first, and "+" and "/" themselves stay valid; 64
\* for a character outside the alphabet, which the decoder discards.
B64Value ==
    [ c \in Chars |->
        IF \E v \in 0..63 : B64Char(v) = c THEN CHOOSE v \in 0..63 : B64Char(v) = c
        ELSE IF c = "+" THEN 62
        ELSE IF c = "/" THEN 63
        ELSE 64 ]

\* binascii.Error ("Incorrect padding", or one data character too many)
B64Error == [ok |-> FALSE, bytes |-> <<>>]

\* binascii.a2b_base64 (non-strict), one character of the input: quad_pos,
\* leftchar and pads are the decoder's registers, out the bytes produced so
\* far, done the jump out of the loop at a complete pad sequence.
a2b_step(st, ch) ==
    LET v == B64Value[ch]
    IN  IF st.done THEN st
        ELSE IF ch = "=" THEN
            IF st.quad_pos >= 2 /\ st.quad_pos + st.pads + 1 >= 4
            THEN [st EXCEPT !.done = TRUE]
            ELSE IF st.quad_pos >= 2 THEN [st EXCEPT !.pads = st.pads + 1] ELSE st
        ELSE IF v >= 64 THEN st
        ELSE IF st.quad_pos = 0 THEN
            [st EXCEPT !.quad_pos = 1, !.leftchar = v, !.pads = 0]
        ELSE IF st.quad_pos = 1 THEN
            [st EXCEPT !.quad_pos = 2, !.leftchar = v % 16, !.pads = 0,
                       !.out = Append(st.out, st.leftchar * 4 + v \div 16)]
        ELSE IF st.quad_pos = 2 THEN
            [st EXCEPT !.quad_pos = 3, !.leftchar = v % 4, !.pads = 0,
                       !.out = Append(st.out, st.leftchar * 16 + v \div 4)]
        ELSE
            [st EXCEPT !.quad_pos = 0, !.leftchar = 0, !.pads = 0,
                       !.out = Append(st.out, st.leftchar * 64 + v)]

\* The decoder's loop over the characters lo..hi of s, in order
RECURSIVE a2b_loop(_, _, _, _)
a2b_loop(s, lo, hi, st) ==
    IF lo > hi THEN st
    ELSE IF lo = hi THEN a2b_step(st, CharAt(s, lo))
    ELSE LET mid   == (lo + hi) \div 2
             first == a2b_loop(s, lo, mid, st)
         IN  IF first.done THEN first ELSE a2b_loop(s, mid + 1, hi, first)

\* binascii.a2b_base64(s): the bytes, or B64Error when the data characters
\* do not fill their last group of four
a2b_base64(s) ==
    LET st == a2b_loop(s, 1, Len(s),
                       [quad_pos |-> 0, leftchar |-> 0, pads |-> 0, out |-> <<>>, done |-> FALSE])
    IN  IF ~st.done /\ st.quad_pos # 0 THEN B64Error ELSE [ok |-> TRUE, bytes |-> st.out]

\* base64.urlsafe_b64decode(s) of an ASCII string
urlsafe_b64decode(s) == a2b_base64(s)

\* "=" * n
RECURSIVE Pad(_)
Pad(n) == IF n <= 0 THEN "" ELSE "=" \o Pad(n - 1)

\* str.startswith
StartsWith(s, p) == Len(s) >= Len(p) /\ SubSeq(s, 1, Len(p)) = p

(***************************************************************************)
(* Identifier codec                                                        *)
(***************************************************************************)

\* SpecialEnums.LITELM_MANAGED_FILE_ID_PREFIX
LITELM_MANAGED_FILE_ID_PREFIX == "litellm_proxy"

\* SpecialEnums.LITELLM_MANAGED_FILE_COMPLETE_STR.value.format(file_type, u)
LITELLM_MANAGED_FILE_COMPLETE_STR(file_type, u) ==
    LITELM_MANAGED_FILE_ID_PREFIX \o ":" \o file_type \o ";unified_id," \o u

\* return_unified_file_id: the URL-safe base64 of the unified file id, padding stripped
base64_unified_file_id(unified_file_id) ==
    RStripPad(urlsafe_b64encode(StrEncode(unified_file_id), 1))

\* The result False of _is_base64_encoded_unified_file_id
NotUnified == [ok |-> FALSE, decoded |-> ""]

\* A faulty _is_base64_encoded_unified_file_id: the stripped padding is not put back
_is_base64_encoded_unified_file_id_unpadded(b64_uid) ==
    LET raw == urlsafe_b64decode(b64_uid)
    IN  IF ~raw.ok \/ ~Utf8Valid(raw.bytes) THEN NotUnified
        ELSE IF StartsWith(raw.bytes, StrEncode(LITELM_MANAGED_FILE_ID_PREFIX))
             THEN [ok |-> TRUE, decoded |-> StrOfBytes(raw.bytes, 1, Len(raw.bytes))]
             ELSE NotUnified

\* A faulty _is_base64_encoded_unified_file_id: whatever decodes to printable
\* text is taken for a unified file id, the prefix is not looked at
_is_base64_encoded_unified_file_id_any_text(b64_uid) ==
    LET padded == b64_uid \o Pad((4 - (Len(b64_uid) % 4)) % 4)
        raw    == urlsafe_b64decode(padded)
    IN  IF ~raw.ok \/ Len(raw.bytes) = 0 THEN NotUnified
        ELSE IF \E i \in 1..Len(raw.bytes) : raw.bytes[i] \notin { Ord[c] : c \in Chars }
             THEN NotUnified
             ELSE [ok |-> TRUE, decoded |-> StrOfBytes(raw.bytes, 1, Len(raw.bytes))]

\* _is_base64_encoded_unified_file_id: the decoded unified file id (ok), or False
_is_base64_encoded_unified_file_id(b64_uid) ==
    LET padded == b64_uid \o Pad((4 - (Len(b64_uid) % 4)) % 4)
        raw    == urlsafe_b64decode(padded)
    IN  IF ~raw.ok \/ ~Utf8Valid(raw.bytes) THEN NotUnified
        ELSE IF StartsWith(raw.bytes, StrEncode(LITELM_MANAGED_FILE_ID_PREFIX))
             THEN [ok |-> TRUE, decoded |-> StrOfBytes(raw.bytes, 1, Len(raw.bytes))]
             ELSE NotUnified

(***************************************************************************)
(* The values the model ranges over                                        *)
(***************************************************************************)

\* Bounds: the length of the file_objects list of one upload, and the number
\* of store tasks created and not yet finished
MaxFiles == 2
MaxPending == 1

\* str(uuid.uuid4()): the values the codec is exercised on, and the value the
\* create-file endpoint draws
CodecUuids ==
    { "3f2b8c1e-9d4a-4e6b-8a57-0c1d2e3f4a5b", "a94a8fe5-ccb1-4ba6-9c4d-2f1e0b3a7c68",
      "0b6e1d52-7c3f-4f0a-b1e9-5d2c4a6f8e10", "e7d3c9a1-2b4f-4c8d-9a6e-1f0b3d5c7a92" }

Uuids == { "3f2b8c1e-9d4a-4e6b-8a57-0c1d2e3f4a5b" }

\* file_data["content_type"]: the lengths 8, 9, 10 and 15 give unified file
\* ids of every length modulo 3
ContentTypes == {"text/csv", "image/png", "text/plain", "application/pdf"}

\* The content type of the files uploaded through the endpoints
FileTypes == {"application/pdf"}

\* The unified file ids the codec is exercised on, and those the endpoints create
CodecTokens == { LITELLM_MANAGED_FILE_COMPLETE_STR(ft, u) : ft \in ContentTypes, u \in CodecUuids }

Tokens == { LITELLM_MANAGED_FILE_COMPLETE_STR(ft, u) : ft \in FileTypes, u \in Uuids }

\* Router deployments (model ids) and the file ids the providers hand out
Backends == {"gpt-a", "gpt-b"}

BackendFileIds == {"prov-123", "prov-456"}

\* The provider file id a caller passes, or gets back, without the proxy managing it
NativeFileIds == {"prov-123"}

Filenames == {"a.pdf", "b.pdf"}

\* _hidden_params.get("model_id") of a file object that carries no model id
NoModelId == "None"

\* The base64 form of every unified file id of the model, computed once
B64Of == [ t \in CodecTokens |-> base64_unified_file_id(t) ]

\* The identifiers a caller may pass: base64 forms, raw unified file ids, provider ids
CodecCandidates ==
    CodecTokens \cup { B64Of[t] : t \in CodecTokens }
      \cup { urlsafe_b64encode(StrEncode(t), 1) : t \in CodecTokens }
      \cup BackendFileIds
      \cup {"", "file-abc123", "YWJj", "bGl0ZWxsbV9wcm94eQ", "litellm_proxy"}

Candidates == Tokens \cup { B64Of[t] : t \in Tokens } \cup NativeFileIds

\* _is_base64_encoded_unified_file_id on the identifiers of the model, computed once
IsUnifiedMemo == [ c \in CodecCandidates |-> _is_base64_encoded_unified_file_id(c) ]

is_base64_encoded_unified_file_id(b64_uid) ==
    IF b64_uid \in DOMAIN IsUnifiedMemo THEN IsUnifiedMemo[b64_uid]
    ELSE _is_base64_encoded_unified_file_id(b64_uid)

\* _convert_b64_uid_to_unified_uid (static) and convert_b64_uid_to_unified_uid
_convert_b64_uid_to_unified_uid(b64_uid) ==
    LET is_base64_unified_file_id == is_base64_encoded_unified_file_id(b64_uid)
    IN  IF is_base64_unified_file_id.ok THEN is_base64_unified_file_id.decoded ELSE b64_uid

convert_b64_uid_to_unified_uid(b64_uid) == _convert_b64_uid_to_unified_uid(b64_uid)

(***************************************************************************)
(* Cache values, file objects and backend mappings                         *)
(***************************************************************************)

\* The cached value None, a cached OpenAIFileObject, a cached Dict[str, str]
NoneValue == [kind |-> "None"]

FileValue(file_object) == [kind |-> "file", obj |-> file_object]

DictValue(items) == [kind |-> "dict", items |-> items]

\* isinstance(response, OpenAIFileObject)
IsFileObject(response) == response.object = "file"

\* Python truthiness of a cached value: None and the empty dict are falsy
Truthy(v) == v.kind = "file" \/ (v.kind = "dict" /\ Len(v.items) > 0)

\* A dict in insertion order is a sequence of <<key, value>> pairs
DictKeys(d) == [ i \in 1..Len(d) |-> d[i][1] ]

DictHas(d, k) == \E i \in 1..Len(d) : d[i][1] = k

\* d[k] = v: the value of an existing key is replaced where it stands, a new key goes last
DictSet(d, k, v) ==
    IF DictHas(d, k) THEN [ i \in 1..Len(d) |-> IF d[i][1] = k THEN <<k, v>> ELSE d[i] ]
    ELSE Append(d, <<k, v>>)

\* The key of the full file object: f"litellm_proxy/{file_id}"
ObjectKey(file_id) == "litellm_proxy/" \o file_id

\* internal_usage_cache.async_get_cache(key): None for a key never set
CacheGet(c, key) == IF key \in DOMAIN c THEN c[key] ELSE NoneValue

\* internal_usage_cache.async_set_cache(key, value)
CacheSet(c, key, value) ==
    [ k \in (DOMAIN c) \cup {key} |-> IF k = key THEN value ELSE c[k] ]

(***************************************************************************)
(* The stores                                                              *)
(***************************************************************************)

\* A faulty store_unified_file_id: the write goes to the bare file id, outside
\* the "litellm_proxy/" namespace get_unified_file_id reads
store_unified_file_id_bare_key(c, file_id, file_object) ==
    CacheSet(c, file_id, FileValue(file_object))

\* A faulty store_unified_file_id: the write is lost
store_unified_file_id_lost_write(c, file_id, file_object) == c

\* store_unified_file_id: the cache after the write
store_unified_file_id(c, file_id, file_object) ==
    CacheSet(c, ObjectKey(file_id), FileValue(file_object))

\* get_unified_file_id: the cached value, NoneValue when absent
get_unified_file_id(c, file_id) == CacheGet(c, ObjectKey(file_id))

\* The exception raised for a file object that is not in the cache
NotFound(file_id) == [kind |-> "NotFound", id |-> file_id, checked |-> <<>>, errors |-> <<>>]

\* A faulty delete_unified_file_id: the old value is returned and left in place
delete_unified_file_id_keeps_entry(c, file_id) ==
    LET old_value == CacheGet(c, ObjectKey(file_id))
    IN  IF old_value.kind # "file"
        THEN [raised |-> TRUE, result |-> NotFound(file_id), cache |-> c]
        ELSE [raised |-> FALSE, result |-> old_value, cache |-> c]

\* delete_unified_file_id: raises when no file object is stored, else writes
\* None over it and returns the old value
delete_unified_file_id(c, file_id) ==
    LET old_value == CacheGet(c, ObjectKey(file_id))
    IN  IF old_value.kind # "file"
        THEN [raised |-> TRUE, result |-> NotFound(file_id), cache |-> c]
        ELSE [raised |-> FALSE, result |-> old_value,
              cache |-> CacheSet(c, ObjectKey(file_id), NoneValue)]

\* get_model_file_id_mapping, first loop: the ids managed by LiteLLM, in order
RECURSIVE litellm_managed_file_ids(_, _)
litellm_managed_file_ids(file_ids, i) ==
    IF i > Len(file_ids) THEN <<>>
    ELSE LET file_id == file_ids[i]
             is_base64_unified_file_id == is_base64_encoded_unified_file_id(file_id)
             rest == litellm_managed_file_ids(file_ids, i + 1)
         IN  IF is_base64_unified_file_id.ok THEN <<is_base64_unified_file_id.decoded>> \o rest
             ELSE IF StartsWith(file_id, LITELM_MANAGED_FILE_ID_PREFIX) THEN <<file_id>> \o rest
             ELSE rest

\* A faulty get_model_file_id_mapping: the cached value of a managed id is put
\* in the dict whatever it is, None and the empty dict too
get_model_file_id_mapping_keeps_empty(c, file_ids) ==
    LET managed == litellm_managed_file_ids(file_ids, 1)
        found   == { managed[i] : i \in 1..Len(managed) }
    IN  [ file_id \in found |-> CacheGet(c, file_id) ]

\* get_model_file_id_mapping: the dict file_id -> cached value, of the managed
\* ids whose cached value is truthy (a function on its key set)
get_model_file_id_mapping(c, file_ids) ==
    LET managed == litellm_managed_file_ids(file_ids, 1)
        found   == { managed[i] : i \in { j \in 1..Len(managed) : Truthy(CacheGet(c, managed[j])) } }
    IN  [ file_id \in found |-> CacheGet(c, file_id) ]

\* get_model_file_id_mapping: the keys it reads from the cache, in order: one
\* async_get_cache per managed id, none for any other id
get_model_file_id_mapping_reads(file_ids) == litellm_managed_file_ids(file_ids, 1)

\* The outcome of a call, with the cache reads made before it put in front
AfterReads(reads, outcome) ==
    [raised |-> outcome.raised, result |-> outcome.result, calls |-> outcome.calls,
     cache |-> outcome.cache, reads |-> reads \o outcome.reads]

\* model_file_id_mapping.get(file_id): NoneValue for a missing key
MappingGet(model_file_id_mapping, file_id) ==
    IF file_id \in DOMAIN model_file_id_mapping THEN model_file_id_mapping[file_id] ELSE NoneValue

(***************************************************************************)
(* return_unified_file_id                                                   *)
(***************************************************************************)

\* A faulty loop over file_objects: the first backend file id of a backend is
\* kept, a later file object of the same backend is ignored
RECURSIVE stored_values_loop_keeps_first(_, _, _)
stored_values_loop_keeps_first(file_objects, i, stored_values) ==
    IF i > Len(file_objects) THEN stored_values
    ELSE LET file_object == file_objects[i]
         IN  IF file_object.model_id = NoModelId \/ DictHas(stored_values, file_object.model_id)
             THEN stored_values_loop_keeps_first(file_objects, i + 1, stored_values)
             ELSE stored_values_loop_keeps_first(file_objects, i + 1,
                      DictSet(stored_values, file_object.model_id, file_object.id))

\* The loop over file_objects: stored_values after the objects i..
RECURSIVE stored_values_loop(_, _, _)
stored_values_loop(file_objects, i, stored_values) ==
    IF i > Len(file_objects) THEN stored_values
    ELSE LET file_object == file_objects[i]
         IN  IF file_object.model_id = NoModelId
             THEN stored_values_loop(file_objects, i + 1, stored_values)
             ELSE stored_values_loop(file_objects, i + 1,
                                     DictSet(stored_values, file_object.model_id, file_object.id))

\* return_unified_file_id: the response, and the cache with the backend mapping
\* written under the unified file id
return_unified_file_id(c, file_objects, file_type, u) ==
    LET unified_file_id == LITELLM_MANAGED_FILE_COMPLETE_STR(file_type, u)
        response == [object |-> "file", id |-> B64Of[unified_file_id],
                     filename |-> file_objects[1].filename, model_id |-> NoModelId]
        stored_values == stored_values_loop(file_objects, 1, <<>>)
    IN  [response |-> response,
         cache |-> CacheSet(c, unified_file_id, DictValue(stored_values))]

(***************************************************************************)
(* The file endpoints                                                      *)
(***************************************************************************)

\* afile_retrieve
afile_retrieve(c, file_id) ==
    LET stored_file_object == get_unified_file_id(c, file_id)
    IN  IF Truthy(stored_file_object)
        THEN [raised |-> FALSE, result |-> stored_file_object, calls |-> <<>>, cache |-> c,
              reads |-> <<ObjectKey(file_id)>>]
        ELSE [raised |-> TRUE, result |-> NotFound(file_id), calls |-> <<>>, cache |-> c,
              reads |-> <<ObjectKey(file_id)>>]

\* A faulty afile_list: the stored file objects are read from the cache and listed
afile_list_stored_files(c, purpose) ==
    LET keys == { k \in DOMAIN c : c[k].kind = "file" }
        key  == CHOOSE k \in keys : TRUE
    IN  IF keys = {}
        THEN [raised |-> FALSE, result |-> [kind |-> "list", items |-> <<>>], calls |-> <<>>,
              cache |-> c, reads |-> <<>>]
        ELSE [raised |-> FALSE, result |-> [kind |-> "list", items |-> <<c[key]>>],
              calls |-> <<>>, cache |-> c, reads |-> <<key>>]

\* afile_list
afile_list(c, purpose) ==
    [raised |-> FALSE, result |-> [kind |-> "list", items |-> <<>>], calls |-> <<>>, cache |-> c,
     reads |-> <<>>]

\* A call of llm_router.afile_delete or llm_router.afile_content, and whether it returned
RouterCall(model_id, file_id, ok) == [model |-> model_id, file_id |-> file_id, ok |-> ok]

\* The exception of a failed router call
BackendFailure(model_id, file_id) ==
    [kind |-> "BackendFailure", id |-> file_id, checked |-> <<model_id>>, errors |-> <<>>]

\* afile_delete, the loop over specific_model_file_id_mapping.items() from
\* entry i: the calls made, whether a call raised, and file_id, which the loop
\* rebinds to the backend file id of each entry.  The router call of model_id
\* raises when model_id is in fails.
RECURSIVE delete_loop(_, _, _, _, _)
delete_loop(items, i, fails, file_id, calls) ==
    IF i > Len(items) THEN [raised |-> FALSE, file_id |-> file_id, calls |-> calls]
    ELSE LET model_id     == items[i][1]
             backend_file == items[i][2]
             made         == Append(calls, RouterCall(model_id, backend_file, model_id \notin fails))
         IN  IF model_id \in fails
             THEN [raised |-> TRUE, file_id |-> backend_file, calls |-> made,
                   result |-> BackendFailure(model_id, backend_file)]
             ELSE delete_loop(items, i + 1, fails, backend_file, made)

\* afile_delete, the fan-out: one router call per entry of the backend mapping,
\* none when the mapping is missing or empty
delete_fan_out(specific_model_file_id_mapping, file_id, fails) ==
    IF Truthy(specific_model_file_id_mapping)
    THEN delete_loop(specific_model_file_id_mapping.items, 1, fails, file_id, <<>>)
    ELSE [raised |-> FALSE, file_id |-> file_id, calls |-> <<>>]

\* A faulty end of afile_delete: the exception of delete_unified_file_id is
\* swallowed and None is returned
afile_delete_outcome_swallows_not_found(c, loop) ==
    IF loop.raised
    THEN [raised |-> TRUE, result |-> loop.result, calls |-> loop.calls, cache |-> c,
          reads |-> <<>>]
    ELSE LET deleted == delete_unified_file_id(c, loop.file_id)
         IN  [raised |-> FALSE, calls |-> loop.calls,
              result |-> IF deleted.raised THEN NoneValue ELSE deleted.result,
              cache |-> deleted.cache, reads |-> <<ObjectKey(loop.file_id)>>]

\* afile_delete after the fan-out: an exception of the loop propagates, else
\* delete_unified_file_id runs on what file_id is bound to by then
afile_delete_outcome(c, loop) ==
    IF loop.raised
    THEN [raised |-> TRUE, result |-> loop.result, calls |-> loop.calls, cache |-> c,
          reads |-> <<>>]
    ELSE LET deleted == delete_unified_file_id(c, loop.file_id)
         IN  [raised |-> deleted.raised, result |-> deleted.result, calls |-> loop.calls,
              cache |-> deleted.cache, reads |-> <<ObjectKey(loop.file_id)>>]

\* afile_delete from the lookup of the backend mapping on, file_id being the
\* converted identifier
afile_delete_unified(c, file_id, fails) ==
    AfterReads(get_model_file_id_mapping_reads(<<file_id>>),
        afile_delete_outcome(c,
            delete_fan_out(MappingGet(get_model_file_id_mapping(c, <<file_id>>), file_id),
                           file_id, fails)))

\* afile_delete
afile_delete(c, file_id_arg, fails) ==
    afile_delete_unified(c, convert_b64_uid_to_unified_uid(file_id_arg), fails)

\* What llm_router.afile_content returns for a backend that has the file
ContentOf(model_id, file_id) == [kind |-> "content", model |-> model_id, file_id |-> file_id]

\* A faulty loop of afile_content: a successful call does not end the loop, the
\* content of the last successful backend is returned
RECURSIVE content_loop_last_success(_, _, _, _, _)
content_loop_last_success(items, i, fails, calls, exception_dict) ==
    IF i > Len(items)
    THEN [returned |-> FALSE, calls |-> calls, exception_dict |-> exception_dict]
    ELSE LET model_id     == items[i][1]
             backend_file == items[i][2]
             made         == Append(calls, RouterCall(model_id, backend_file, model_id \notin fails))
             later        == content_loop_last_success(items, i + 1, fails, made, exception_dict)
         IN  IF model_id \in fails
             THEN content_loop_last_success(items, i + 1, fails, made,
                      DictSet(exception_dict, model_id, "error from " \o model_id))
             ELSE IF later.returned THEN later
             ELSE [returned |-> TRUE, calls |-> later.calls, exception_dict |-> exception_dict,
                   result |-> ContentOf(model_id, backend_file)]

\* A faulty loop of afile_content: the first failed call ends the loop
RECURSIVE content_loop_first_error(_, _, _, _, _)
content_loop_first_error(items, i, fails, calls, exception_dict) ==
    IF i > Len(items)
    THEN [returned |-> FALSE, calls |-> calls, exception_dict |-> exception_dict]
    ELSE LET model_id     == items[i][1]
             backend_file == items[i][2]
             made         == Append(calls, RouterCall(model_id, backend_file, model_id \notin fails))
         IN  IF model_id \in fails
             THEN [returned |-> FALSE, calls |-> made,
                   exception_dict |-> DictSet(exception_dict, model_id, "error from " \o model_id)]
             ELSE [returned |-> TRUE, calls |-> made, exception_dict |-> exception_dict,
                   result |-> ContentOf(model_id, backend_file)]

\* afile_content, the loop over specific_model_file_id_mapping.items() from
\* entry i: exception_dict collects str(e) of every failed call
RECURSIVE content_loop(_, _, _, _, _)
content_loop(items, i, fails, calls, exception_dict) ==
    IF i > Len(items)
    THEN [returned |-> FALSE, calls |-> calls, exception_dict |-> exception_dict]
    ELSE LET model_id     == items[i][1]
             backend_file == items[i][2]
             made         == Append(calls, RouterCall(model_id, backend_file, model_id \notin fails))
         IN  IF model_id \in fails
             THEN content_loop(items, i + 1, fails, made,
                               DictSet(exception_dict, model_id, "error from " \o model_id))
             ELSE [returned |-> TRUE, calls |-> made, exception_dict |-> exception_dict,
                   result |-> ContentOf(model_id, backend_file)]

\* A faulty afile_content: without a backend mapping the file object stored for
\* the identifier is returned when there is one
afile_content_outcome_stored_object(c, initial_file_id, specific_model_file_id_mapping, fails) ==
    IF Truthy(specific_model_file_id_mapping)
    THEN LET loop == content_loop(specific_model_file_id_mapping.items, 1, fails, <<>>, <<>>)
         IN  IF loop.returned
             THEN [raised |-> FALSE, result |-> loop.result, calls |-> loop.calls, cache |-> c,
                   reads |-> <<>>]
             ELSE [raised |-> TRUE, calls |-> loop.calls, cache |-> c, reads |-> <<>>,
                   result |-> [kind |-> "NotFound", id |-> initial_file_id,
                               checked |-> DictKeys(specific_model_file_id_mapping.items),
                               errors |-> loop.exception_dict]]
    ELSE IF Truthy(get_unified_file_id(c, initial_file_id))
    THEN [raised |-> FALSE, result |-> get_unified_file_id(c, initial_file_id), calls |-> <<>>,
          cache |-> c, reads |-> <<ObjectKey(initial_file_id)>>]
    ELSE [raised |-> TRUE, result |-> NotFound(initial_file_id), calls |-> <<>>, cache |-> c,
          reads |-> <<ObjectKey(initial_file_id)>>]

\* afile_content once the backend mapping of the file is looked up
afile_content_outcome(c, initial_file_id, specific_model_file_id_mapping, fails) ==
    IF Truthy(specific_model_file_id_mapping)
    THEN LET loop == content_loop(specific_model_file_id_mapping.items, 1, fails, <<>>, <<>>)
         IN  IF loop.returned
             THEN [raised |-> FALSE, result |-> loop.result, calls |-> loop.calls, cache |-> c,
                   reads |-> <<>>]
             ELSE [raised |-> TRUE, calls |-> loop.calls, cache |-> c, reads |-> <<>>,
                   result |-> [kind |-> "NotFound", id |-> initial_file_id,
                               checked |-> DictKeys(specific_model_file_id_mapping.items),
                               errors |-> loop.exception_dict]]
    ELSE [raised |-> TRUE, result |-> NotFound(initial_file_id), calls |-> <<>>, cache |-> c,
          reads |-> <<>>]

\* afile_content from the lookup of the backend mapping on, unified_file_id
\* being the converted identifier
afile_content_unified(c, initial_file_id, unified_file_id, fails) ==
    AfterReads(get_model_file_id_mapping_reads(<<unified_file_id>>),
        afile_content_outcome(c, initial_file_id,
            MappingGet(get_model_file_id_mapping(c, <<unified_file_id>>), unified_file_id),
            fails))

\* afile_content
afile_content(c, file_id_arg, fails) ==
    afile_content_unified(c, file_id_arg, convert_b64_uid_to_unified_uid(file_id_arg), fails)

(***************************************************************************)
(* async_pre_call_hook                                                      *)
(*                                                                         *)
(* A content part is a record: type is c["type"], file_id is                *)
(* c["file"].get("file_id") of a part of type "file" (NoFileId when the    *)
(* key is missing), text the text of any other part.  The content of a     *)
(* message is None, a str or a list of parts.  The request is data: its    *)
(* "messages" key (has_messages, messages) and its                         *)
(* "model_file_id_mapping" key (attached, model_file_id_mapping).          *)
(***************************************************************************)

\* file_object_file_field.get("file_id") of a part that has no file_id
NoFileId == "None"

FilePart(file_id) == [type |-> "file", file_id |-> file_id, text |-> ""]

TextPart(text) == [type |-> "text", file_id |-> NoFileId, text |-> text]

NoContent == [kind |-> "None", text |-> "", parts |-> <<>>]

StrContent(text) == [kind |-> "str", text |-> text, parts |-> <<>>]

ListContent(parts) == [kind |-> "list", text |-> "", parts |-> parts]

\* Python truthiness of message.get("content"): None, "" and [] are falsy
ContentTruthy(content) ==
    \/ content.kind = "str" /\ content.text # ""
    \/ content.kind = "list" /\ Len(content.parts) > 0

\* "if file_id:" for the file_id of a content part
FileIdTruthy(file_id) == file_id # NoFileId /\ file_id # ""

\* The loop "for c in content" of
\* get_file_ids_and_decode_b64_to_unified_uid_from_messages: the converted
\* file_id of a file part is appended to file_ids and written back to the part
RECURSIVE content_loop_of_message(_, _, _)
content_loop_of_message(content, i, file_ids) ==
    IF i > Len(content) THEN [file_ids |-> file_ids, content |-> content]
    ELSE LET c == content[i]
         IN  IF c.type = "file" /\ FileIdTruthy(c.file_id)
             THEN content_loop_of_message(
                      [content EXCEPT ![i].file_id = _convert_b64_uid_to_unified_uid(c.file_id)],
                      i + 1,
                      Append(file_ids, _convert_b64_uid_to_unified_uid(c.file_id)))
             ELSE content_loop_of_message(content, i + 1, file_ids)

\* A faulty loop "for message in messages": the role of the message is not
\* looked at
RECURSIVE messages_loop_any_role(_, _, _)
messages_loop_any_role(messages, i, file_ids) ==
    IF i > Len(messages) THEN [file_ids |-> file_ids, messages |-> messages]
    ELSE IF /\ ContentTruthy(messages[i].content)
            /\ messages[i].content.kind # "str"
    THEN messages_loop_any_role(
             [messages EXCEPT ![i].content.parts =
                 content_loop_of_message(messages[i].content.parts, 1, file_ids).content],
             i + 1,
             content_loop_of_message(messages[i].content.parts, 1, file_ids).file_ids)
    ELSE messages_loop_any_role(messages, i + 1, file_ids)

\* The loop "for message in messages": only a user message whose content is a
\* non-empty list is gone through
RECURSIVE messages_loop(_, _, _)
messages_loop(messages, i, file_ids) ==
    IF i > Len(messages) THEN [file_ids |-> file_ids, messages |-> messages]
    ELSE IF /\ messages[i].role = "user"
            /\ ContentTruthy(messages[i].content)
            /\ messages[i].content.kind # "str"
    THEN messages_loop(
             [messages EXCEPT ![i].content.parts =
                 content_loop_of_message(messages[i].content.parts, 1, file_ids).content],
             i + 1,
             content_loop_of_message(messages[i].content.parts, 1, file_ids).file_ids)
    ELSE messages_loop(messages, i + 1, file_ids)

\* get_file_ids_and_decode_b64_to_unified_uid_from_messages: the file ids it
\* returns, and the messages as it leaves them
get_file_ids_and_decode_b64_to_unified_uid_from_messages(messages) ==
    messages_loop(messages, 1, <<>>)

\* What async_pre_call_hook returns
DataValue(data) == [kind |-> "data", data |-> data]

\* A faulty async_pre_call_hook after the messages are gone through: the
\* mapping is looked up and attached also when there is no file id
pre_call_hook_attach_always(c, data, rewritten) ==
    [raised |-> FALSE, calls |-> <<>>, cache |-> c,
     reads |-> get_model_file_id_mapping_reads(rewritten.file_ids),
     result |-> DataValue([data EXCEPT
                    !.messages = rewritten.messages,
                    !.attached = TRUE,
                    !.model_file_id_mapping = get_model_file_id_mapping(c, rewritten.file_ids)])]

\* async_pre_call_hook after the messages are gone through: with a file id the
\* mapping is looked up and put in data["model_file_id_mapping"]
pre_call_hook_attach(c, data, rewritten) ==
    IF Len(rewritten.file_ids) > 0
    THEN [raised |-> FALSE, calls |-> <<>>, cache |-> c,
          reads |-> get_model_file_id_mapping_reads(rewritten.file_ids),
          result |-> DataValue([data EXCEPT
                         !.messages = rewritten.messages,
                         !.attached = TRUE,
                         !.model_file_id_mapping =
                             get_model_file_id_mapping(c, rewritten.file_ids)])]
    ELSE [raised |-> FALSE, calls |-> <<>>, cache |-> c, reads |-> <<>>,
          result |-> DataValue([data EXCEPT !.messages = rewritten.messages])]

\* async_pre_call_hook
async_pre_call_hook(c, data, call_type) ==
    IF call_type = "completion" /\ data.has_messages /\ Len(data.messages) > 0
    THEN pre_call_hook_attach(c, data,
             get_file_ids_and_decode_b64_to_unified_uid_from_messages(data.messages))
    ELSE [raised |-> FALSE, calls |-> <<>>, cache |-> c, reads |-> <<>>,
          result |-> DataValue(data)]

(***************************************************************************)
(* State                                                                   *)
(***************************************************************************)

VARIABLES
    cache,    \* internal_usage_cache: key -> cached value
    pending,  \* the store_unified_file_id tasks created and not yet finished: response -> count
    issued,   \* the responses of return_unified_file_id not yet passed to the post-call hook
    used,     \* the uuids uuid4() has handed out
    last      \* the step last taken: operation, argument, outcome, router calls

vars == <<cache, pending, issued, used, last>>

\* The file objects the router returns for an upload (the file_objects of
\* return_unified_file_id)
ProviderFiles ==
    [object : {"file"}, id : BackendFileIds, filename : {"a.pdf"},
     model_id : Backends \cup {NoModelId}]

RECURSIVE SeqsUpTo(_, _)
SeqsUpTo(S, n) ==
    IF n = 0 THEN {<<>>}
    ELSE LET shorter == SeqsUpTo(S, n - 1)
         IN  shorter \cup { Append(q, x) : q \in shorter, x \in S }

\* The non-empty lists of uploaded file objects
FileObjectLists == SeqsUpTo(ProviderFiles, MaxFiles) \ {<<>>}

\* The responses of return_unified_file_id
UnifiedResponses ==
    [object : {"file"}, id : { B64Of[t] : t \in Tokens }, filename : {"a.pdf"},
     model_id : {NoModelId}]

\* File objects of a provider returned to the client as they are
NativeResponses ==
    [object : {"file"}, id : NativeFileIds, filename : {"a.pdf"}, model_id : {NoModelId}]

\* A response that is no file object
ChatResponse == [object |-> "chat.completion", id |-> "chatcmpl-1", filename |-> "",
                 model_id |-> NoModelId]

StoredObjects == UnifiedResponses \cup NativeResponses

\* The purpose argument of afile_list: an OpenAIFilesPurpose, or None
Purposes == {"assistants", "batch", "None"}

\* The keys the cache is created with: every key starts out unset
CacheKeys == Tokens \cup { ObjectKey(id) : id \in Candidates }

\* The number of store tasks created and not yet finished
RECURSIVE SumPending(_, _)
SumPending(p, S) ==
    IF S = {} THEN 0
    ELSE LET o == CHOOSE x \in S : TRUE
         IN  p[o] + SumPending(p, S \ {o})

PendingCount == SumPending(pending, StoredObjects)

\* The step taken: the operation, its identifier argument, its other input,
\* whether it raised, what it returned or raised, the router calls it made and
\* the cache keys it read (none, for a step built by Step)
Step(op, arg, input, raised, result, calls) ==
    [op |-> op, arg |-> arg, input |-> input, raised |-> raised, result |-> result,
     calls |-> calls, reads |-> <<>>]

\* A step that read the cache keys reads, in this order
ReadingStep(step, reads) == [step EXCEPT !.reads = reads]

NoStep == Step("init", "", <<>>, FALSE, NoneValue, <<>>)

\* The step of an endpoint with outcome r; input is the set of backends whose
\* router call fails during the step
EndpointStep(op, arg, input, r) ==
    ReadingStep(Step(op, arg, input, r.raised, r.result, r.calls), r.reads)

Init ==
    /\ cache = [ k \in CacheKeys |-> NoneValue ]
    /\ pending = [ o \in StoredObjects |-> 0 ]
    /\ issued = {}
    /\ used = {}
    /\ last = NoStep

(***************************************************************************)
(* Actions                                                                 *)
(***************************************************************************)

\* The create-file endpoint: the file was uploaded to the backends and
\* return_unified_file_id builds the response and writes the mapping
CreateFile(file_objects, file_type, u) ==
    LET r == return_unified_file_id(cache, file_objects, file_type, u)
    IN  /\ u \notin used
        /\ used' = used \cup {u}
        /\ cache' = r.cache
        /\ issued' = issued \cup {r.response}
        /\ last' = Step("return_unified_file_id", LITELLM_MANAGED_FILE_COMPLETE_STR(file_type, u),
                        file_objects, FALSE, FileValue(r.response), <<>>)
        /\ UNCHANGED pending

\* A faulty async_post_call_success_hook: the store is awaited, the hook returns
\* after the cache write
async_post_call_success_hook_awaits_store(response) ==
    /\ response \in issued \cup NativeResponses \cup {ChatResponse}
    /\ IF IsFileObject(response)
       THEN cache' = store_unified_file_id(cache, response.id, response)
       ELSE UNCHANGED cache
    /\ issued' = issued \ {response}
    /\ last' = Step("async_post_call_success_hook", response.id, <<>>, FALSE, NoneValue, <<>>)
    /\ UNCHANGED <<pending, used>>

\* async_post_call_success_hook: a file object response creates the task that
\* stores it; the hook returns None at once
async_post_call_success_hook(response) ==
    /\ response \in issued \cup NativeResponses \cup {ChatResponse}
    /\ IF IsFileObject(response)
       THEN /\ PendingCount < MaxPending
            /\ pending' = [pending EXCEPT ![response] = @ + 1]
       ELSE UNCHANGED pending
    /\ issued' = issued \ {response}
    /\ last' = Step("async_post_call_success_hook", response.id, <<>>, FALSE, NoneValue, <<>>)
    /\ UNCHANGED <<cache, used>>

\* The task created by the hook runs store_unified_file_id(response.id, response)
StoreTaskDone(response) ==
    /\ pending[response] > 0
    /\ pending' = [pending EXCEPT ![response] = @ - 1]
    /\ cache' = store_unified_file_id(cache, response.id, response)
    /\ last' = Step("store_unified_file_id", response.id, <<>>, FALSE, FileValue(response), <<>>)
    /\ UNCHANGED <<issued, used>>

\* The cache write of the task raises: the exception stays in the task
StoreTaskFailed(response) ==
    /\ pending[response] > 0
    /\ pending' = [pending EXCEPT ![response] = @ - 1]
    /\ last' = Step("store_unified_file_id", response.id, <<>>, TRUE, FileValue(response), <<>>)
    /\ UNCHANGED <<cache, issued, used>>

\* The endpoints: the outcome r of the call is the cache afterwards and the step
FileRetrieve(file_id) ==
    \E r \in {afile_retrieve(cache, file_id)} :
       /\ cache' = r.cache
       /\ last' = EndpointStep("afile_retrieve", file_id, {}, r)
       /\ UNCHANGED <<pending, issued, used>>

FileList(purpose) ==
    \E r \in {afile_list(cache, purpose)} :
       /\ cache' = r.cache
       /\ last' = EndpointStep("afile_list", purpose, {}, r)
       /\ UNCHANGED <<pending, issued, used>>

FileDelete(file_id, fails) ==
    \E r \in {afile_delete(cache, file_id, fails)} :
       /\ cache' = r.cache
       /\ last' = EndpointStep("afile_delete", file_id, fails, r)
       /\ UNCHANGED <<pending, issued, used>>

FileContent(file_id, fails) ==
    \E r \in {afile_content(cache, file_id, fails)} :
       /\ cache' = r.cache
       /\ last' = EndpointStep("afile_content", file_id, fails, r)
       /\ UNCHANGED <<pending, issued, used>>

Next ==
    \/ \E file_objects \in FileObjectLists, file_type \in FileTypes, u \in Uuids :
          CreateFile(file_objects, file_type, u)
    \/ \E response \in StoredObjects \cup {ChatResponse} : async_post_call_success_hook(response)
    \/ \E response \in StoredObjects : StoreTaskDone(response)
    \/ \E response \in StoredObjects : StoreTaskFailed(response)
    \/ \E file_id \in Candidates : FileRetrieve(file_id)
    \/ \E purpose \in Purposes : FileList(purpose)
    \/ \E file_id \in Candidates, fails \in SUBSET Backends : FileDelete(file_id, fails)
    \/ \E file_id \in Candidates, fails \in SUBSET Backends : FileContent(file_id, fails)

Spec == Init /\ [][Next]_vars

TypeOK ==
    /\ DOMAIN cache = CacheKeys
    /\ PendingCount <= MaxPending

\* The asyncio loop runs every task it was given: a created store task
\* finishes, with the cache write done or raising
StoreTask(response) == StoreTaskDone(response) \/ StoreTaskFailed(response)

FairSpec == Spec /\ \A response \in StoredObjects : WF_vars(StoreTask(response))

(***************************************************************************)
(* The stores, called on their own                                         *)
(***************************************************************************)

\* The file objects the store is exercised on: two different objects per id
StoreObjects ==
    [object : {"file"}, id : { B64Of[t] : t \in Tokens } \cup NativeFileIds,
     filename : Filenames, model_id : {NoModelId}]

StorePut(file_object) ==
    /\ cache' = store_unified_file_id(cache, file_object.id, file_object)
    /\ last' = Step("store_unified_file_id", file_object.id, <<>>, FALSE,
                    FileValue(file_object), <<>>)
    /\ UNCHANGED <<pending, issued, used>>

StoreGet(file_id) ==
    /\ last' = ReadingStep(Step("get_unified_file_id", file_id, <<>>, FALSE,
                                get_unified_file_id(cache, file_id), <<>>),
                           <<ObjectKey(file_id)>>)
    /\ UNCHANGED <<cache, pending, issued, used>>

StoreDelete(file_id) ==
    LET r == delete_unified_file_id(cache, file_id)
    IN  /\ cache' = r.cache
        /\ last' = ReadingStep(Step("delete_unified_file_id", file_id, <<>>, r.raised,
                                    r.result, <<>>),
                               <<ObjectKey(file_id)>>)
        /\ UNCHANGED <<pending, issued, used>>

\* get_model_file_id_mapping([file_id]).get(file_id)
MappingLookup(file_id) ==
    /\ last' = ReadingStep(Step("get_model_file_id_mapping", file_id, <<>>, FALSE,
                                MappingGet(get_model_file_id_mapping(cache, <<file_id>>),
                                           file_id), <<>>),
                           get_model_file_id_mapping_reads(<<file_id>>))
    /\ UNCHANGED <<cache, pending, issued, used>>

StoreNext ==
    \/ \E file_object \in StoreObjects : StorePut(file_object)
    \/ \E file_id \in Candidates : StoreGet(file_id)
    \/ \E file_id \in Candidates : StoreDelete(file_id)
    \/ \E file_objects \in FileObjectLists, file_type \in FileTypes, u \in Uuids :
          CreateFile(file_objects, file_type, u)
    \/ \E file_id \in Candidates : MappingLookup(file_id)

StoreSpec == Init /\ [][StoreNext]_vars

(***************************************************************************)
(* The codec, called on its own                                            *)
(***************************************************************************)

StrValue(str) == [kind |-> "str", value |-> str]

\* return_unified_file_id, lines 286-293: the unified file id and its base64 form
CodecEncode(file_type, u) ==
    LET unified_file_id == LITELLM_MANAGED_FILE_COMPLETE_STR(file_type, u)
    IN  /\ last' = Step("encode", unified_file_id, <<>>, FALSE,
                        StrValue(base64_unified_file_id(unified_file_id)), <<>>)
        /\ UNCHANGED <<cache, pending, issued, used>>

CodecDecode(b64_uid) ==
    LET r == is_base64_encoded_unified_file_id(b64_uid)
    IN  /\ last' = Step("_is_base64_encoded_unified_file_id", b64_uid, <<>>, FALSE,
                        [kind |-> IF r.ok THEN "str" ELSE "False", value |-> r.decoded], <<>>)
        /\ UNCHANGED <<cache, pending, issued, used>>

CodecNormalize(b64_uid) ==
    /\ last' = Step("_convert_b64_uid_to_unified_uid", b64_uid, <<>>, FALSE,
                    StrValue(_convert_b64_uid_to_unified_uid(b64_uid)), <<>>)
    /\ UNCHANGED <<cache, pending, issued, used>>

CodecNext ==
    \/ \E file_type \in ContentTypes, u \in CodecUuids : CodecEncode(file_type, u)
    \/ \E b64_uid \in CodecCandidates : CodecDecode(b64_uid)
    \/ \E b64_uid \in CodecCandidates : CodecNormalize(b64_uid)

CodecSpec == Init /\ [][CodecNext]_vars

(***************************************************************************)
(* The pre-call hook on chat requests                                      *)
(***************************************************************************)

MaxMessages == 2
MaxParts == 2

\* A unified file id no create-file call of the model hands out
UnissuedTokens == { LITELLM_MANAGED_FILE_COMPLETE_STR("text/csv", u) : u \in Uuids }

\* The file ids the requests refer to: base64 forms of unified file ids, provider ids
ReferencedFileIds == { B64Of[t] : t \in Tokens \cup UnissuedTokens } \cup NativeFileIds

ContentParts ==
    { FilePart(file_id) : file_id \in ReferencedFileIds \cup {NoFileId} } \cup {TextPart("hello")}

Contents ==
    {NoContent, StrContent("hello")}
      \cup { ListContent(parts) : parts \in SeqsUpTo(ContentParts, MaxParts) \ {<<>>} }

ChatMessages == [role : {"user", "assistant"}, content : Contents]

\* data: without a "messages" key, or with a list of up to MaxMessages messages
RequestData ==
    [has_messages : {TRUE}, messages : SeqsUpTo(ChatMessages, MaxMessages),
     attached : {FALSE}, model_file_id_mapping : {<<>>}]
      \cup [has_messages : {FALSE}, messages : {<<>>},
            attached : {FALSE}, model_file_id_mapping : {<<>>}]

CallTypes == {"completion", "embeddings"}

\* The proxy calls the hook on a request
PreCallHook(data, call_type) ==
    \E r \in {async_pre_call_hook(cache, data, call_type)} :
       /\ cache' = r.cache
       /\ last' = EndpointStep("async_pre_call_hook", call_type, data, r)
       /\ UNCHANGED <<pending, issued, used>>

HookNext ==
    \/ \E file_objects \in FileObjectLists, file_type \in FileTypes, u \in Uuids :
          CreateFile(file_objects, file_type, u)
    \/ /\ last.op # "async_pre_call_hook"
       /\ \E data \in RequestData, call_type \in CallTypes : PreCallHook(data, call_type)

\* The hook writes nothing, so a request directly after a request reaches no
\* state that the second request alone does not reach: HookNext takes one
\* request after each other step.
HookSpec == Init /\ [][HookNext]_vars

(***************************************************************************)
(* Claims                                                                  *)
(***************************************************************************)

\* The opaque id of a unified file id, as the create-file response carries it
OpaqueId(t) == B64Of[t]

\* The backend mapping stored for a unified file id (NoneValue when none)
StoredMapping(c, t) == CacheGet(c, t)

\* C1: after a create-file response with id X whose backend mapping is
\* {"gpt-a": "prov-123"} and after the store task for X has written the file
\* object, a Delete called with X (no router call failing) returns the file
\* object stored for X and issues exactly one router delete call, for backend
\* "gpt-a" and backend file id "prov-123".
C1_DeleteReturnsStoredObject ==
    [][ \A t \in Tokens :
          ( /\ last'.op = "afile_delete"
            /\ last'.arg = OpaqueId(t)
            /\ StoredMapping(cache, t) = DictValue(<< <<"gpt-a", "prov-123">> >>)
            /\ get_unified_file_id(cache, OpaqueId(t)).kind = "file"
            /\ last'.result.kind # "BackendFailure" )
          => ( /\ ~last'.raised
               /\ last'.result = get_unified_file_id(cache, OpaqueId(t))
               /\ last'.calls = << RouterCall("gpt-a", "prov-123", TRUE) >> ) ]_vars

\* C2: during Delete, for a backend mapping with several backends, the router
\* delete is attempted for every backend of the mapping whichever of them
\* fail, and a failed router delete is not the result of the Delete.
C2_DeleteFanOutIsBestEffort ==
    [][ \A t \in Tokens :
          ( /\ last'.op = "afile_delete"
            /\ convert_b64_uid_to_unified_uid(last'.arg) = t
            /\ StoredMapping(cache, t).kind = "dict"
            /\ Len(StoredMapping(cache, t).items) >= 2 )
          => ( /\ last'.result.kind # "BackendFailure"
               /\ \A i \in 1..Len(StoredMapping(cache, t).items) :
                     \E j \in 1..Len(last'.calls) :
                        /\ last'.calls[j].model = StoredMapping(cache, t).items[i][1]
                        /\ last'.calls[j].file_id = StoredMapping(cache, t).items[i][2] ) ]_vars

\* C3: the backend mapping of a unified file is deleted exactly when the
\* unified file is deleted: after a successful Delete for U the mapping store
\* holds no mapping for U, and no other step removes a mapping.
C3_MappingDeletedWithFile ==
    [][ \A t \in Tokens :
          /\ ( /\ last'.op = "afile_delete"
               /\ ~last'.raised
               /\ convert_b64_uid_to_unified_uid(last'.arg) = t )
             => ~Truthy(StoredMapping(cache', t))
          /\ ( Truthy(StoredMapping(cache, t)) /\ ~Truthy(StoredMapping(cache', t)) )
             => ( last'.op = "afile_delete" /\ ~last'.raised ) ]_vars

\* Two outcomes are the same: the same returned value, or the same kind of
\* exception, and the same cache afterwards
SameOutcome(r1, r2) ==
    /\ r1.raised = r2.raised
    /\ r1.cache = r2.cache
    /\ IF r1.raised THEN r1.result.kind = r2.result.kind ELSE r1.result = r2.result

\* C4: in every reachable state, Retrieve, Delete and Content fetch called with
\* the base64 form of a unified file id have the same outcome as called with
\* the raw unified file id.
C4_BothFormsAddressSameFile ==
    \A t \in Tokens :
       /\ SameOutcome(afile_retrieve(cache, OpaqueId(t)), afile_retrieve(cache, t))
       /\ \A fails \in SUBSET Backends :
             /\ SameOutcome(afile_delete(cache, OpaqueId(t), fails), afile_delete(cache, t, fails))
             /\ SameOutcome(afile_content(cache, OpaqueId(t), fails), afile_content(cache, t, fails))

\* C5: once the post-call hook has created the store task for a file object
\* response, and the task is run and its cache write does not raise,
\* get_unified_file_id of the id of the response returns that file object.
C5_HookEventuallyStores ==
    \A response \in StoredObjects :
       (pending[response] > 0)
          ~> ( \/ get_unified_file_id(cache, response.id) = FileValue(response)
               \/ ( /\ last.op = "store_unified_file_id"
                    /\ last.raised
                    /\ last.result = FileValue(response) ) )

\* The store task of a create-file response has run and the lookup returns it
C5_Witness ==
    /\ last.op = "store_unified_file_id"
    /\ ~last.raised
    /\ \E t \in Tokens : last.arg = OpaqueId(t)
    /\ get_unified_file_id(cache, last.arg) = last.result
    /\ last.result.kind = "file"

\* The entries of the backend mapping a Content fetch or Delete of file_id resolves
MappingItems(c, file_id) ==
    LET t == convert_b64_uid_to_unified_uid(file_id)
    IN  IF StartsWith(t, LITELM_MANAGED_FILE_ID_PREFIX) /\ StoredMapping(c, t).kind = "dict"
        THEN StoredMapping(c, t).items
        ELSE <<>>

\* The positions of the mapping whose backend does not fail
Succeeding(items, fails) == { i \in 1..Len(items) : items[i][1] \notin fails }

Min(S) == CHOOSE i \in S : \A j \in S : i <= j

\* C6: Content fetch with a non-empty backend mapping calls the backends in
\* mapping order, each at most once, up to the first backend whose fetch
\* succeeds, and returns the content of that backend; no later backend is called.
C6_ContentFirstSuccessInOrder ==
    LET items == MappingItems(cache, last.arg)
        succ  == Succeeding(items, last.input)
    IN  ( last.op = "afile_content" /\ Len(items) > 0 /\ succ # {} )
        => LET k == Min(succ)
           IN  /\ ~last.raised
               /\ last.result = ContentOf(items[k][1], items[k][2])
               /\ last.calls = [ i \in 1..k |-> RouterCall(items[i][1], items[i][2], i = k) ]

\* Backend "gpt-a" failed, backend "gpt-b" succeeded and its content is returned
C6_Witness ==
    /\ last.op = "afile_content"
    /\ ~last.raised
    /\ Len(last.calls) = 2
    /\ last.calls[1].model = "gpt-a" /\ ~last.calls[1].ok
    /\ last.calls[2].model = "gpt-b" /\ last.calls[2].ok
    /\ last.result = ContentOf("gpt-b", last.calls[2].file_id)

\* C7: a Content fetch in which every backend of the mapping fails raises
\* NotFound after a call to each backend of the mapping; the exception names
\* every backend of the mapping and carries one error message per backend; and
\* a Content fetch of a file with a mapping raises in no other case.
C7_ContentAllFailNotFound ==
    LET items == MappingItems(cache, last.arg)
        succ  == Succeeding(items, last.input)
    IN  ( last.op = "afile_content" /\ Len(items) > 0 )
        => /\ succ = {}
              => /\ last.raised
                 /\ last.result.kind = "NotFound"
                 /\ last.result.id = last.arg
                 /\ last.calls = [ i \in 1..Len(items) |->
                                     RouterCall(items[i][1], items[i][2], FALSE) ]
                 /\ last.result.checked = DictKeys(items)
                 /\ DictKeys(last.result.errors) = DictKeys(items)
           /\ last.raised => succ = {}

\* Both backends of a mapping failed
C7_Witness ==
    /\ last.op = "afile_content"
    /\ last.raised
    /\ Len(last.calls) = 2
    /\ last.result.checked = <<"gpt-a", "gpt-b">>
    /\ Len(last.result.errors) = 2

\* C8: get after put returns the value put, the latest put winning; delete
\* returns the value stored immediately before; get after delete returns
\* None and a second delete raises NotFound; the mapping written by
\* return_unified_file_id is what the lookup of the unified file id returns.
C8_StoreAlgebra ==
    [][ /\ ( /\ last.op = "store_unified_file_id"
             /\ last'.op = "get_unified_file_id"
             /\ last'.arg = last.arg )
           => last'.result = last.result
        /\ ( /\ last.op = "store_unified_file_id"
             /\ last'.op = "delete_unified_file_id"
             /\ last'.arg = last.arg )
           => ( ~last'.raised /\ last'.result = last.result )
        /\ ( /\ last.op = "get_unified_file_id"
             /\ last'.op = "delete_unified_file_id"
             /\ last'.arg = last.arg )
           => IF last.result.kind = "file"
              THEN ~last'.raised /\ last'.result = last.result
              ELSE last'.raised /\ last'.result.kind = "NotFound"
        /\ ( /\ last.op = "delete_unified_file_id"
             /\ ~last.raised
             /\ last'.op = "get_unified_file_id"
             /\ last'.arg = last.arg )
           => last'.result = NoneValue
        /\ ( /\ last.op = "delete_unified_file_id"
             /\ last'.op = "delete_unified_file_id"
             /\ last'.arg = last.arg )
           => ( last'.raised /\ last'.result.kind = "NotFound" /\ cache' = cache )
        /\ ( /\ last.op = "return_unified_file_id"
             /\ last'.op = "get_model_file_id_mapping"
             /\ last'.arg = last.arg )
           => \A model_id \in Backends, id \in BackendFileIds :
                 ( last'.result.kind = "dict"
                   /\ \E i \in 1..Len(last'.result.items) :
                         last'.result.items[i] = <<model_id, id>> )
                 <=> ( /\ \E i \in 1..Len(last.input) : last.input[i].model_id = model_id
                       /\ LET n == Min({ i \in 1..Len(last.input) :
                                           /\ last.input[i].model_id = model_id
                                           /\ \A j \in (i+1)..Len(last.input) :
                                                 last.input[j].model_id # model_id })
                          IN  last.input[n].id = id )
      ]_vars

\* A stored file object was deleted: delete returned it and the lookup of its
\* id returns None
C8_Witness ==
    /\ last.op = "delete_unified_file_id"
    /\ ~last.raised
    /\ last.result.kind = "file"
    /\ last.result.obj.filename = "b.pdf"
    /\ get_unified_file_id(cache, last.arg) = NoneValue

\* C9: decoding the base64 form that return_unified_file_id builds for a
\* content type and a uuid gives back the unified file id exactly, whatever
\* its length modulo 3.
C9_CodecRoundTrip ==
    [][ ( /\ last.op = "encode"
          /\ last'.op = "_is_base64_encoded_unified_file_id"
          /\ last'.arg = last.result.value )
        => last'.result = StrValue(last.arg) ]_vars

\* The base64 form of a unified file id whose length is 1 modulo 3 (two padding
\* characters stripped) was decoded to it
C9_Witness ==
    /\ last.op = "_is_base64_encoded_unified_file_id"
    /\ last.result.kind = "str"
    /\ \E t \in CodecTokens :
          /\ Len(t) % 3 = 1
          /\ last.arg = OpaqueId(t)
          /\ Len(last.arg) % 4 = 2
          /\ last.result.value = t

\* The strings starting with the prefix that a candidate of the codec decodes to
PrefixedTexts == CodecTokens \cup {LITELM_MANAGED_FILE_ID_PREFIX}

\* Their base64 forms, computed once
PrefixedBase64 == [ s \in PrefixedTexts |-> base64_unified_file_id(s) ]

\* C10: normalizing twice gives what normalizing once gives; a candidate that
\* is the base64 form of a string starting with the prefix normalizes to that
\* string, and every other candidate is returned unchanged.
C10_NormalizeIdempotent ==
    [][ /\ ( /\ last.op = "_convert_b64_uid_to_unified_uid"
             /\ last'.op = "_convert_b64_uid_to_unified_uid"
             /\ last'.arg = last.result.value )
           => last'.result = last.result
        /\ last'.op = "_convert_b64_uid_to_unified_uid"
           => LET decodes == { s \in PrefixedTexts :
                                 RStripPad(last'.arg) = PrefixedBase64[s] }
              IN  IF decodes # {}
                  THEN last'.result.value \in decodes
                  ELSE last'.result.value = last'.arg
      ]_vars

\* A base64 string that decodes to text without the prefix was returned unchanged
C10_Witness ==
    /\ last.op = "_convert_b64_uid_to_unified_uid"
    /\ last.arg = "YWJj"
    /\ last.result.value = "YWJj"

\* C11: the post-call hook returns None without raising and without the cache
\* written, whatever the store task later does: for a file object response it
\* only creates the store task, for any other response it creates no task; a
\* store task whose write raises changes nothing but the task being over.
C11_HookFireAndForget ==
    [][ /\ \A response \in StoredObjects \cup {ChatResponse} :
             ( last'.op = "async_post_call_success_hook" /\ last'.arg = response.id )
             => /\ ~last'.raised
                /\ last'.result = NoneValue
                /\ last'.calls = <<>>
                /\ cache' = cache
                /\ pending' = IF IsFileObject(response)
                              THEN [pending EXCEPT ![response] = @ + 1]
                              ELSE pending
        /\ ( last'.op = "store_unified_file_id" /\ last'.raised )
           => ( cache' = cache /\ issued' = issued /\ used' = used )
      ]_vars

\* The hook has returned for a create-file response whose store task has not
\* run: the lookup of its id still returns None
C11_Witness ==
    /\ last.op = "async_post_call_success_hook"
    /\ \E response \in UnifiedResponses :
          /\ last.arg = response.id
          /\ pending[response] > 0
          /\ get_unified_file_id(cache, response.id) = NoneValue

\* C15: afile_list returns the empty list for every state of the cache and every
\* purpose; it reads no cache key, leaves the cache as it was and makes no router
\* call.
C15_ListAlwaysEmpty ==
    [][ last'.op = "afile_list"
        => /\ ~last'.raised
           /\ last'.result = [kind |-> "list", items |-> <<>>]
           /\ last'.calls = <<>>
           /\ last'.reads = <<>>
           /\ cache' = cache
      ]_vars

\* afile_list was called with a purpose while a file object and its mapping are stored
C15_Witness ==
    /\ last.op = "afile_list"
    /\ last.arg = "batch"
    /\ \E o \in UnifiedResponses :
          /\ get_unified_file_id(cache, o.id) = FileValue(o)
          /\ Truthy(CacheGet(cache, convert_b64_uid_to_unified_uid(o.id)))

\* A file object is stored for the identifier, under the form given or the
\* converted form
StoredFileObject(c, file_id) ==
    \/ get_unified_file_id(c, file_id).kind = "file"
    \/ get_unified_file_id(c, convert_b64_uid_to_unified_uid(file_id)).kind = "file"

\* C16: Delete called with an identifier for which neither a backend mapping
\* nor a file object is stored raises NotFound, makes no router delete call and
\* leaves every cache entry as it was.
C16_DeleteUnknownNotFound ==
    [][ \A file_id \in Candidates :
          ( /\ last'.op = "afile_delete"
            /\ last'.arg = file_id
            /\ MappingItems(cache, file_id) = <<>>
            /\ ~StoredFileObject(cache, file_id) )
          => ( /\ last'.raised
               /\ last'.result = NotFound(convert_b64_uid_to_unified_uid(file_id))
               /\ last'.calls = <<>>
               /\ cache' = cache ) ]_vars

\* Delete was called with the base64 form of a unified file id that has no
\* mapping and no file object, while the router was set to fail
C16_Witness ==
    /\ last.op = "afile_delete"
    /\ last.raised
    /\ last.input = Backends
    /\ \E t \in Tokens :
          /\ last.arg = OpaqueId(t)
          /\ StoredMapping(cache, t) = NoneValue
          /\ ~StoredFileObject(cache, OpaqueId(t))

\* C17: Content fetch called with an identifier whose backend mapping is missing
\* or empty raises NotFound for that identifier at once: no router call is made
\* and the cache stays as it was, also when a file object is stored for the
\* identifier.
C17_ContentNoMappingNotFound ==
    [][ \A file_id \in Candidates :
          ( /\ last'.op = "afile_content"
            /\ last'.arg = file_id
            /\ MappingItems(cache, file_id) = <<>> )
          => ( /\ last'.raised
               /\ last'.result = NotFound(file_id)
               /\ last'.calls = <<>>
               /\ last'.reads = get_model_file_id_mapping_reads(
                                    <<convert_b64_uid_to_unified_uid(file_id)>>)
               /\ cache' = cache ) ]_vars

\* Content fetch was called for a unified file id whose stored mapping is the
\* empty dict and whose file object is stored
C17_Witness ==
    /\ last.op = "afile_content"
    /\ last.raised
    /\ \E t \in Tokens :
          /\ last.arg = OpaqueId(t)
          /\ StoredMapping(cache, t) = DictValue(<<>>)
          /\ get_unified_file_id(cache, OpaqueId(t)).kind = "file"

\* The hook has returned for the response and its store task has not written yet
StorePending(response) ==
    /\ pending[response] > 0
    /\ get_unified_file_id(cache, response.id) = NoneValue

\* C18: while the store task of file id X is pending and nothing is stored for X,
\* a Retrieve for X raises NotFound and a Delete for X does not return the file
\* object of X (it raises NotFound when no router call fails and no provider
\* file object is stored); either request leaves the task pending, and the
\* write of the task, whenever it runs afterwards, leaves the file object of X in
\* the cache.
C18_BackgroundStoreRaces ==
    [][ \A response \in StoredObjects :
          /\ ( StorePending(response) /\ last'.op = "afile_retrieve" /\ last'.arg = response.id )
             => ( /\ last'.raised
                  /\ last'.result = NotFound(response.id)
                  /\ cache' = cache
                  /\ pending' = pending )
          /\ ( StorePending(response) /\ last'.op = "afile_delete" /\ last'.arg = response.id )
             => ( /\ last'.result # FileValue(response)
                  /\ get_unified_file_id(cache', response.id) = NoneValue
                  /\ pending' = pending
                  /\ ( /\ last'.input = {}
                       /\ \A native \in NativeResponses :
                             get_unified_file_id(cache, native.id) = NoneValue )
                     => ( last'.raised /\ last'.result.kind = "NotFound" ) )
          /\ ( last'.op = "store_unified_file_id" /\ ~last'.raised /\ last'.arg = response.id )
             => get_unified_file_id(cache', response.id) = FileValue(response)
      ]_vars

\* A Delete for a create-file response ran to its end, after router delete
\* calls, and raised NotFound while the store task of the response is pending
C18_Witness ==
    /\ last.op = "afile_delete"
    /\ last.raised
    /\ last.result.kind = "NotFound"
    /\ last.calls # <<>>
    /\ \E response \in UnifiedResponses :
          /\ last.arg = response.id
          /\ StorePending(response)

\* A Retrieve for a create-file response raised NotFound while the store task of
\* the response is pending
C18_RetrieveBeforeStore ==
    /\ last.op = "afile_retrieve"
    /\ last.raised
    /\ \E response \in UnifiedResponses :
          /\ last.arg = response.id
          /\ StorePending(response)

\* C19: Delete called with an identifier that has a non-empty backend mapping
\* and no stored file object, no router call failing, makes the router delete
\* call of every backend of the mapping, in mapping order, and then raises
\* NotFound.
C19_DeleteFanOutBeforeCheck ==
    [][ \A file_id \in Candidates :
          LET items == MappingItems(cache, file_id)
          IN  ( /\ last'.op = "afile_delete"
                /\ last'.arg = file_id
                /\ last'.input = {}
                /\ Len(items) > 0
                /\ ~StoredFileObject(cache, file_id) )
              => ( /\ last'.calls = [ i \in 1..Len(items) |->
                                        RouterCall(items[i][1], items[i][2], TRUE) ]
                   /\ last'.raised
                   /\ last'.result.kind = "NotFound" ) ]_vars

\* What afile_delete does with a mapping and no stored file object, no router
\* call failing: every router delete call is made, then the file object is looked up under the backend file id of the last entry of
\* the mapping; it is deleted and returned when there is one, else NotFound is
\* raised for the backend file id
C19_FanOutThenLookupOfLastBackendFile ==
    [][ \A file_id \in Candidates :
          LET items == MappingItems(cache, file_id)
              bound == items[Len(items)][2]
          IN  ( /\ last'.op = "afile_delete"
                /\ last'.arg = file_id
                /\ last'.input = {}
                /\ Len(items) > 0
                /\ ~StoredFileObject(cache, file_id) )
              => ( /\ last'.calls = [ i \in 1..Len(items) |->
                                        RouterCall(items[i][1], items[i][2], TRUE) ]
                   /\ IF get_unified_file_id(cache, bound).kind = "file"
                      THEN /\ ~last'.raised
                           /\ last'.result = get_unified_file_id(cache, bound)
                           /\ cache' = [cache EXCEPT ![ObjectKey(bound)] = NoneValue]
                      ELSE /\ last'.raised
                           /\ last'.result = NotFound(bound)
                           /\ cache' = cache ) ]_vars

\* The positions of the uploaded file objects that carry the backend id
UploadsOf(file_objects, model_id) ==
    { j \in 1..Len(file_objects) : file_objects[j].model_id = model_id }

Max(S) == CHOOSE i \in S : \A j \in S : j <= i

\* C20: at the step where return_unified_file_id returns its response, the cache
\* holds a dict under the raw unified file id, which is the converted form of
\* the base64 response id; the dict has one entry per backend id carried by an
\* uploaded file object, in order of first upload, whose value is the id of the
\* last file object uploaded for that backend; file objects without a backend id
\* add no entry; no other cache key is written.
C20_MappingWrittenAtCreation ==
    [][ last'.op = "return_unified_file_id"
        => LET file_objects == last'.input
               response     == last'.result.obj
               key          == convert_b64_uid_to_unified_uid(response.id)
               items        == cache'[key].items
           IN  /\ response \in issued'
               /\ key = last'.arg
               /\ key # response.id
               /\ response.id = B64Of[key]
               /\ cache'[key].kind = "dict"
               /\ { items[i][1] : i \in 1..Len(items) }
                     = { file_objects[j].model_id : j \in 1..Len(file_objects) } \ {NoModelId}
               /\ \A i \in 1..Len(items) :
                     /\ items[i][2] = file_objects[Max(UploadsOf(file_objects, items[i][1]))].id
                     /\ \A k \in 1..Len(items) :
                           i < k => Min(UploadsOf(file_objects, items[i][1]))
                                      < Min(UploadsOf(file_objects, items[k][1]))
               /\ \A k \in DOMAIN cache \ {key} : cache'[k] = cache[k]
      ]_vars

\* A file was created from two uploads to the same backend with different
\* backend file ids
C20_Witness ==
    /\ last.op = "return_unified_file_id"
    /\ Len(last.input) = 2
    /\ last.input[1].model_id = last.input[2].model_id
    /\ last.input[1].model_id # NoModelId
    /\ last.input[1].id # last.input[2].id

\* The file references of a message list: the positions <<i, j>> of the parts of
\* type "file" that have a file_id, in the list contents of the user messages
FileReferences(messages) ==
    { p \in (1..Len(messages)) \X (1..MaxParts + 1) :
        /\ messages[p[1]].role = "user"
        /\ messages[p[1]].content.kind = "list"
        /\ p[2] <= Len(messages[p[1]].content.parts)
        /\ messages[p[1]].content.parts[p[2]].type = "file"
        /\ FileIdTruthy(messages[p[1]].content.parts[p[2]].file_id) }

\* There is nothing to rewrite in the request
NothingToRewrite(call_type, data) ==
    \/ call_type # "completion"
    \/ ~data.has_messages
    \/ FileReferences(data.messages) = {}

\* C12: called with a call type other than completion, or with data that has no
\* messages, or whose messages hold no file reference, async_pre_call_hook
\* returns data as it was, without a model_file_id_mapping key, after no cache
\* read, and the cache is as it was.
C12_HookNoOpWithoutFileReference ==
    [][ ( last'.op = "async_pre_call_hook" /\ NothingToRewrite(last'.arg, last'.input) )
        => ( /\ ~last'.raised
             /\ last'.result = DataValue(last'.input)
             /\ ~last'.result.data.attached
             /\ last'.reads = <<>>
             /\ last'.calls = <<>>
             /\ cache' = cache ) ]_vars

\* The hook ran on a completion request of two messages without a file reference,
\* in which an assistant message has a file part whose unified file id has a
\* stored mapping
C12_Witness ==
    /\ last.op = "async_pre_call_hook"
    /\ last.arg = "completion"
    /\ Len(last.input.messages) = 2
    /\ FileReferences(last.input.messages) = {}
    /\ \E i \in 1..2, t \in Tokens :
          /\ last.input.messages[i].role = "assistant"
          /\ last.input.messages[i].content = ListContent(<<FilePart(OpaqueId(t))>>)
          /\ Truthy(StoredMapping(cache, t))

\* The part at position <<i, j>> as the rewriter has to leave it: the file_id of
\* a file reference converted, any other part as it was
RewrittenPart(messages, i, j) ==
    LET c == messages[i].content.parts[j]
    IN  IF <<i, j>> \in FileReferences(messages)
        THEN FilePart(_convert_b64_uid_to_unified_uid(c.file_id))
        ELSE c

\* C13: on a completion request with messages, the messages the hook returns are
\* the messages it got with the file_id of every part of type "file" of every
\* user message replaced by its converted form; roles, string contents, missing
\* contents, the number and order of messages and parts, parts of another
\* type, file parts without file_id and the parts of messages of another role
\* are as they were, and so is the rest of data but for the mapping key.
C13_RewriterConvertsUserFileParts ==
    [][ ( last'.op = "async_pre_call_hook" /\ last'.arg = "completion"
          /\ last'.input.has_messages )
        => LET before == last'.input.messages
               after  == last'.result.data.messages
           IN  /\ ~last'.raised
               /\ last'.result.data.has_messages
               /\ Len(after) = Len(before)
               /\ \A i \in 1..Len(before) :
                     /\ after[i].role = before[i].role
                     /\ after[i].content.kind = before[i].content.kind
                     /\ after[i].content.text = before[i].content.text
                     /\ Len(after[i].content.parts) = Len(before[i].content.parts)
                     /\ \A j \in 1..Len(before[i].content.parts) :
                           after[i].content.parts[j] = RewrittenPart(before, i, j)
      ]_vars

\* The hook ran on a user message with a file part in base64 form, now in
\* raw form, and a part without file_id, followed by an assistant message
\* with the same base64 file part, which is as it was
C13_Witness ==
    /\ last.op = "async_pre_call_hook"
    /\ last.arg = "completion"
    /\ \E t \in Tokens :
          /\ last.input.messages =
                << [role |-> "user",
                    content |-> ListContent(<<FilePart(OpaqueId(t)), FilePart(NoFileId)>>)],
                   [role |-> "assistant", content |-> ListContent(<<FilePart(OpaqueId(t))>>)] >>
          /\ last.result.data.messages =
                << [role |-> "user",
                    content |-> ListContent(<<FilePart(t), FilePart(NoFileId)>>)],
                   [role |-> "assistant", content |-> ListContent(<<FilePart(OpaqueId(t))>>)] >>

\* The converted file ids of the file references of a message list
ReferencedIds(messages) ==
    { _convert_b64_uid_to_unified_uid(messages[p[1]].content.parts[p[2]].file_id) :
        p \in FileReferences(messages) }

\* Those of them that are unified file ids
ReferencedUnifiedIds(messages) ==
    { file_id \in ReferencedIds(messages) : StartsWith(file_id, LITELM_MANAGED_FILE_ID_PREFIX) }

\* C14: on a completion request with at least one file reference the hook
\* returns data with a model_file_id_mapping whose keys are the referenced
\* unified file ids that have a non-empty mapping in the cache, each with the
\* cached mapping as value (so the mapping is empty when none has one); the
\* cache keys read are the referenced unified file ids and no other, so no id
\* without the prefix is looked up or is a key; the cache is as it was.
C14_HookAttachesStoredMappings ==
    [][ ( /\ last'.op = "async_pre_call_hook"
          /\ last'.arg = "completion"
          /\ last'.input.has_messages
          /\ FileReferences(last'.input.messages) # {} )
        => LET unified == ReferencedUnifiedIds(last'.input.messages)
               stored  == { file_id \in unified : Truthy(StoredMapping(cache, file_id)) }
               mapping == last'.result.data.model_file_id_mapping
           IN  /\ ~last'.raised
               /\ last'.result.data.attached
               /\ DOMAIN mapping = stored
               /\ \A file_id \in stored : mapping[file_id] = StoredMapping(cache, file_id)
               /\ { last'.reads[i] : i \in 1..Len(last'.reads) } = unified
               /\ cache' = cache
      ]_vars

\* The hook ran on a request that refers to a unified file id with a stored
\* mapping, to one without and to a provider's file id: the first is the only
\* key, the two unified ids are the only keys read
C14_Witness ==
    /\ last.op = "async_pre_call_hook"
    /\ last.arg = "completion"
    /\ \E t \in Tokens, unissued \in UnissuedTokens, native \in NativeFileIds :
          /\ ReferencedIds(last.input.messages) = {t, unissued, native}
          /\ StoredMapping(cache, t).kind = "dict"
          /\ Len(StoredMapping(cache, t).items) = 2
          /\ DOMAIN last.result.data.model_file_id_mapping = {t}
          /\ last.result.data.model_file_id_mapping[t] = StoredMapping(cache, t)
          /\ last.reads = <<t, unissued>>

====
